---- MODULE Spec2Model ----
(***************************************************************************)
(* toggle-vault: the change-detection engine (internal/syncer), the        *)
(* SQLite version ledger (internal/store), the blob client (internal/blob) *)
(* and the restore handler (internal/api), as one state machine.           *)
(*                                                                         *)
(* The syncer is the only sequential process; every ledger statement it    *)
(* issues is a separate SQL statement in autocommit mode, so the model      *)
(* gives each two-write classification two steps.  Reads of the ledger     *)
(* that precede the first write of a step commute with every other         *)
(* process (nobody else writes the ledger) and are folded into that step.  *)
(***************************************************************************)
EXTENDS Integers, Sequences, FiniteSets, TLC

\* ---------------------------------------------------------------- bounds
MaxVersions == 4
MaxRemoteWrites == 1
MaxFaults == 1

\* ------------------------------------------------- the watched universe
\* scan order of the containers (Client.GetContainersToScan)
ContainerOrder == <<"c1", "c2">>
Containers == {ContainerOrder[i] : i \in 1..Len(ContainerOrder)}
\* blob names that can exist in each container (all match the patterns)
ContainerBlobs == [c \in Containers |-> IF c = "c1" THEN <<"a">> ELSE <<"b">>]
\* BlobInfo.FullPath = containerName + "/" + name
FullPathOf(c, n) == c \o "/" \o n
Paths == UNION {{FullPathOf(c, ContainerBlobs[c][i]) : i \in 1..Len(ContainerBlobs[c])} : c \in Containers}
\* strings.SplitN(fullPath, "/", 2)[0]
ContainerOf(p) == CHOOSE c \in Containers : \E i \in 1..Len(ContainerBlobs[c]) : FullPathOf(c, ContainerBlobs[c][i]) = p
\* ORDER BY f.blob_path
PathOrder == <<"c1/a", "c2/b">>
\* contents an upstream writer may put; "" is the content of a tombstone
EnvContents == {"x", "y"}
Contents == EnvContents \cup {""}
\* sha256 + hex: injective on the modelled contents, never the empty string
ComputeHash(c) == IF c = "" THEN "e3b0" ELSE "h_" \o c

\* a plausible slip: handleNewFile built from handleModifiedFile keeps its change type
ChangeTypeCreated_asModified == "modified"
ChangeTypeCreated == "created"
\* a plausible slip: handleModifiedFile built from handleNewFile keeps its change type
ChangeTypeModified_asCreated == "created"
ChangeTypeModified == "modified"
ChangeTypeDeleted == "deleted"

VARIABLES
  remote,          \* the blob store: FullPath -> [present, content, etag, last_modified]
  etagSeq,         \* number of upstream writes so far (source of ETags)
  files,           \* table files
  versions,        \* table versions
  nextFileId,      \* AUTOINCREMENT of files
  nextVersionId,   \* AUTOINCREMENT of versions
  lastInsertRowid, \* sqlite3_last_insert_rowid of the pooled connections: the rowids inserted so far
  clock,           \* time.Now() of the last stored Version
  pc,              \* position of the syncer goroutine
  blobs,           \* sync: the listing
  idx,             \* sync: index of the blob being processed
  seenPaths,       \* sync: seenPaths
  cur,             \* locals of the classification in flight
  todo,            \* checkDeleted: rows of ListFiles still to visit
  vpath,           \* history: version id -> path that was being classified
  failedScopes,    \* history: containers whose listing failed in this cycle
  cycleClean,      \* history: this cycle had no failure and no upstream change
  cycleQuiet,      \* history: this cycle had no upstream change
  settled,         \* history: a clean cycle has completed, nothing happened since
  quiet,           \* history: a cycle has completed, no upstream change since its start
  rst,             \* history: the restore that the next cycle reconciles
  faults,          \* history: number of injected faults so far
  view,            \* what the last handleListFiles returned
  other,           \* the locals of the goroutine that is not running (see Yield)
  resp,            \* HTTP status of the last API response (0: none yet)
  oldContent,      \* diff: the first text handed to Compare
  newContent,      \* diff: the second text handed to Compare
  result,          \* diff: what Compare returned (NoResult: not called yet)
  ctxDone,         \* Start: ctx.Done() is closed
  lateCycles,      \* Start: cycles begun after ctx.Done() was closed
  apiDiff,         \* web page: diff.lines of the response shown
  panes            \* web page: leftLines and rightLines of renderSplitDiff (NoPanes: not rendered yet)

ledger == <<files, versions, nextFileId, nextVersionId>>
syncLocals == <<pc, blobs, idx, seenPaths, cur, todo>>
history == <<vpath, failedScopes, cycleClean, cycleQuiet, settled, quiet, rst, faults>>
vars == <<remote, etagSeq, files, versions, nextFileId, nextVersionId, lastInsertRowid, clock,
          pc, blobs, idx, seenPaths, cur, todo, vpath, failedScopes, cycleClean, cycleQuiet,
          settled, quiet, rst, faults, view, other, resp, oldContent, newContent, result,
          ctxDone, lateCycles, apiDiff, panes>>
diffState == <<oldContent, newContent, result>>
\* the context handed to Syncer.Start: whether ctx.Done() is closed, and the cycles begun after it closed
shutdown == <<ctxDone, lateCycles>>
\* the web page: the line list of the diff it shows and the two panes of the split view
splitState == <<apiDiff, panes>>

NoFile == [id |-> 0]
NoVersion == [id |-> 0]
NoCur == [kind |-> "none"]
NoRst == [path |-> ""]
AbsentBlob == [present |-> FALSE, content |-> "", etag |-> 0, last_modified |-> 0]

\* ------------------------------------------------------- store (SQLite)
\* SQLiteStore.GetFile
GetFile(blobPath) ==
  IF \E f \in files : f.blob_path = blobPath
    THEN CHOOSE f \in files : f.blob_path = blobPath
    ELSE NoFile

\* SQLiteStore.GetVersion
GetVersion(id) ==
  IF \E v \in versions : v.id = id
    THEN CHOOSE v \in versions : v.id = id
    ELSE NoVersion

\* SQLiteStore.GetVersionsByFileID, as a set
VersionsOfFile(fileID) == {v \in versions : v.file_id = fileID}

\* SQLiteStore.GetLatestVersion: ORDER BY captured_at DESC LIMIT 1
GetLatestVersion(fileID) ==
  IF VersionsOfFile(fileID) = {}
    THEN NoVersion
    ELSE CHOOSE v \in VersionsOfFile(fileID) : \A w \in VersionsOfFile(fileID) : w.captured_at <= v.captured_at

\* ORDER BY captured_at DESC over a set of Version rows
RECURSIVE OrderByCapturedAtDesc(_)
OrderByCapturedAtDesc(rows) ==
  IF rows = {} THEN <<>>
  ELSE LET v == CHOOSE v \in rows : \A w \in rows : w.captured_at <= v.captured_at
       IN <<v>> \o OrderByCapturedAtDesc(rows \ {v})

\* a plausible slip: DESC is missing from the ORDER BY
GetVersionsByFileID_ascending(fileID) ==
  LET desc == OrderByCapturedAtDesc(VersionsOfFile(fileID))
  IN [i \in 1..Len(desc) |-> desc[Len(desc) + 1 - i]]

\* SQLiteStore.GetVersionsByFileID
GetVersionsByFileID(fileID) == OrderByCapturedAtDesc(VersionsOfFile(fileID))

\* SQLiteStore.GetVersionsByFilePath: the Versions joined to the file row of
\* the path
GetVersionsByFilePath(blobPath) ==
  OrderByCapturedAtDesc({v \in versions : \E f \in files : f.id = v.file_id /\ f.blob_path = blobPath})

\* SQLiteStore.ListFiles: one row per file with the derived aggregates
ListFiles ==
  {[id |-> f.id, blob_path |-> f.blob_path, etag |-> f.etag, content_hash |-> f.content_hash,
    is_deleted |-> f.is_deleted,
    version_count |-> Cardinality(VersionsOfFile(f.id)),
    latest_change_type |-> IF VersionsOfFile(f.id) = {} THEN "" ELSE GetLatestVersion(f.id).change_type]
   : f \in files}

\* the rows of ListFiles in blob_path order, as the paths they carry
RECURSIVE ListedPaths(_)
ListedPaths(i) ==
  IF i > Len(PathOrder) THEN <<>>
  ELSE (IF GetFile(PathOrder[i]) # NoFile THEN <<PathOrder[i]>> ELSE <<>>) \o ListedPaths(i + 1)

\* a plausible slip: the DO UPDATE clause leaves etag and last_modified out
UpsertRows_keepsETag(file) ==
  IF GetFile(file.blob_path) # NoFile
    THEN (files \ {GetFile(file.blob_path)}) \cup
         {[id |-> GetFile(file.blob_path).id, blob_path |-> file.blob_path,
           etag |-> GetFile(file.blob_path).etag,
           content_hash |-> file.content_hash, last_modified |-> GetFile(file.blob_path).last_modified,
           is_deleted |-> file.is_deleted]}
    ELSE files \cup
         {[id |-> nextFileId, blob_path |-> file.blob_path, etag |-> file.etag,
           content_hash |-> file.content_hash, last_modified |-> file.last_modified,
           is_deleted |-> file.is_deleted]}

\* SQLiteStore.UpsertFile, the statement: INSERT ... ON CONFLICT(blob_path) DO UPDATE
UpsertRows(file) ==
  IF GetFile(file.blob_path) # NoFile
    THEN (files \ {GetFile(file.blob_path)}) \cup
         {[id |-> GetFile(file.blob_path).id, blob_path |-> file.blob_path, etag |-> file.etag,
           content_hash |-> file.content_hash, last_modified |-> file.last_modified,
           is_deleted |-> file.is_deleted]}
    ELSE files \cup
         {[id |-> nextFileId, blob_path |-> file.blob_path, etag |-> file.etag,
           content_hash |-> file.content_hash, last_modified |-> file.last_modified,
           is_deleted |-> file.is_deleted]}

\* SQLiteStore.UpsertFile, the id it leaves in file.ID.  rid is what
\* result.LastInsertId() returns: the new rowid after an insert; after the
\* DO UPDATE branch the connection's last_insert_rowid, which the statement
\* did not change (0 on a connection that has not inserted yet).
UpsertFileID(file, rid) ==
  IF file.id # 0 THEN file.id
  ELSE IF GetFile(file.blob_path) = NoFile THEN nextFileId
  ELSE IF rid > 0 THEN rid
  ELSE GetFile(file.blob_path).id

\* SQLiteStore.MarkFileDeleted: UPDATE files SET is_deleted = TRUE WHERE blob_path = ?
MarkFileDeletedRows(blobPath) ==
  {IF f.blob_path = blobPath THEN [f EXCEPT !.is_deleted = TRUE] ELSE f : f \in files}

\* a plausible slip: INSERT OR REPLACE keyed by the file, the new row replaces the file's old ones
CreateVersionRows_replace(version) ==
  {v \in versions : v.file_id # version.file_id} \cup {[version EXCEPT !.id = nextVersionId]}

\* SQLiteStore.CreateVersion: INSERT INTO versions, id from AUTOINCREMENT
CreateVersionRows(version) ==
  versions \cup {[version EXCEPT !.id = nextVersionId]}

\* ----------------------------------------------------------- blob client
\* Client.ListBlobsInContainer over the blobs present upstream
RECURSIVE ListBlobsInContainer(_, _)
ListBlobsInContainer(c, i) ==
  IF i > Len(ContainerBlobs[c]) THEN <<>>
  ELSE LET full == FullPathOf(c, ContainerBlobs[c][i])
       IN (IF remote[full].present
             THEN <<[Container |-> c, Path |-> ContainerBlobs[c][i], FullPath |-> full,
                     ETag |-> remote[full].etag]>>
             ELSE <<>>) \o ListBlobsInContainer(c, i + 1)

\* Client.ListBlobs: a container whose listing fails is logged and skipped
RECURSIVE ListBlobs(_, _)
ListBlobs(failed, k) ==
  IF k > Len(ContainerOrder) THEN <<>>
  ELSE (IF ContainerOrder[k] \in failed THEN <<>> ELSE ListBlobsInContainer(ContainerOrder[k], 1))
       \o ListBlobs(failed, k + 1)

\* a plausible slip: the hash is taken over the blob's name, not over its content
GetBlob_hashOfName(full) ==
  [FullPath |-> full, Content |-> remote[full].content,
   ContentHash |-> ComputeHash(full),
   ETag |-> remote[full].etag, LastModified |-> remote[full].last_modified]

\* Client.GetBlob: content, recomputed hash, ETag and Last-Modified of the download
GetBlob(full) ==
  [FullPath |-> full, Content |-> remote[full].content,
   ContentHash |-> ComputeHash(remote[full].content),
   ETag |-> remote[full].etag, LastModified |-> remote[full].last_modified]

\* the upstream store before the first cycle: any blob absent or present with some content.
\* Nothing in the program tells one content from another except by equality, so of two
\* stores that differ by renaming the contents only the one whose first present blob holds
\* the first content is kept.
InitialRemotes ==
  {r \in [Paths -> {AbsentBlob} \cup {[present |-> TRUE, content |-> c, etag |-> 0, last_modified |-> 0] : c \in EnvContents}] :
     \A i \in 1..Len(PathOrder) :
       (r[PathOrder[i]].present /\ \A j \in 1..(i - 1) : ~r[PathOrder[j]].present)
         => r[PathOrder[i]].content = "x"}

NoResult == [HasChanges |-> "none"]
NoPanes == [leftLines |-> <<>>, rightLines |-> <<>>, rendered |-> FALSE]

\* the state after construction, the diff package apart
InitVault ==
  /\ remote \in InitialRemotes
  /\ etagSeq = 0
  /\ files = {}
  /\ versions = {}
  /\ nextFileId = 1
  /\ nextVersionId = 1
  /\ lastInsertRowid = {}
  /\ clock = 0
  /\ pc = "idle"
  /\ blobs = <<>>
  /\ idx = 1
  /\ seenPaths = {}
  /\ cur = NoCur
  /\ todo = <<>>
  /\ vpath = <<>>
  /\ failedScopes = {}
  /\ cycleClean = FALSE
  /\ cycleQuiet = FALSE
  /\ settled = FALSE
  /\ quiet = FALSE
  /\ rst = NoRst
  /\ faults = 0
  /\ view = {}
  /\ other = [who |-> "SyncNow", pc |-> "idle", blobs |-> <<>>, idx |-> 1, seenPaths |-> {},
              cur |-> NoCur, todo |-> <<>>]
  /\ resp = 0

Init ==
  /\ InitVault
  /\ oldContent = <<>>
  /\ newContent = <<>>
  /\ result = NoResult
  /\ ctxDone = FALSE
  /\ lateCycles = 0
  /\ apiDiff = <<>>
  /\ panes = NoPanes

\* history bookkeeping shared by the actions
HistOk == UNCHANGED <<cycleClean, cycleQuiet, settled, quiet, rst, faults>>
\* a call failed because of what the upstream did (the object is gone)
HistFailure ==
  /\ cycleClean' = FALSE
  /\ settled' = FALSE
  /\ rst' = NoRst
  /\ UNCHANGED <<cycleQuiet, quiet, faults>>
\* a call failed because a fault was injected
HistFault ==
  /\ cycleClean' = FALSE
  /\ settled' = FALSE
  /\ rst' = NoRst
  /\ faults' = faults + 1
  /\ UNCHANGED <<cycleQuiet, quiet>>
HistUpstreamChange ==
  /\ cycleClean' = FALSE
  /\ cycleQuiet' = FALSE
  /\ settled' = FALSE
  /\ quiet' = FALSE
  /\ UNCHANGED faults

\* ------------------------------------------------ upstream (environment)
NewBlob(c) == [present |-> TRUE, content |-> c, etag |-> etagSeq + 1, last_modified |-> etagSeq + 1]

\* somebody writes the object: new content (or the same), new ETag
PutBlob(p, c) ==
  /\ etagSeq < MaxRemoteWrites
  /\ remote' = [remote EXCEPT ![p] = NewBlob(c)]
  /\ etagSeq' = etagSeq + 1
  /\ HistUpstreamChange
  /\ rst' = NoRst
  /\ UNCHANGED <<ledger, lastInsertRowid, clock, syncLocals, vpath, failedScopes, view, other, resp, diffState, shutdown, splitState>>

\* somebody removes the object
DeleteBlob(p) ==
  /\ remote[p].present
  /\ remote' = [remote EXCEPT ![p] = AbsentBlob]
  /\ HistUpstreamChange
  /\ rst' = NoRst
  /\ UNCHANGED <<etagSeq, ledger, lastInsertRowid, clock, syncLocals, vpath, failedScopes, view, other, resp, diffState, shutdown, splitState>>

\* a plausible slip: sync logs the error of ListBlobs and goes on with the nil listing
sync_list_ignoresError(listErr, failed) ==
  /\ pc = "idle"
  /\ IF listErr
       THEN /\ HistFault
            /\ blobs' = <<>>
            /\ idx' = 1
            /\ seenPaths' = {}
            /\ pc' = "process"
            /\ UNCHANGED <<cur, todo, failedScopes>>
       ELSE /\ blobs' = ListBlobs(failed, 1)
            /\ idx' = 1
            /\ seenPaths' = {}
            /\ pc' = "process"
            /\ failedScopes' = failed
            /\ cycleClean' = (failed = {})
            /\ cycleQuiet' = TRUE
            /\ settled' = (settled /\ failed = {})
            /\ rst' = IF failed = {} THEN rst ELSE NoRst
            /\ faults' = IF failed = {} THEN faults ELSE faults + 1
            /\ UNCHANGED <<cur, todo, quiet>>
  /\ UNCHANGED <<remote, etagSeq, ledger, lastInsertRowid, clock, vpath, view, other, resp, diffState, splitState>>

\* ------------------------------------------------------------- syncer
\* Syncer.Start / Syncer.sync up to the loop: ListBlobs.  listErr: the call
\* itself fails (GetContainersToScan); failed: containers whose listing fails.
sync_list(listErr, failed) ==
  /\ pc = "idle"
  /\ IF listErr
       THEN /\ HistFault
            /\ UNCHANGED <<syncLocals, failedScopes>>
       ELSE /\ blobs' = ListBlobs(failed, 1)
            /\ idx' = 1
            /\ seenPaths' = {}
            /\ pc' = "process"
            /\ failedScopes' = failed
            /\ cycleClean' = (failed = {})
            /\ cycleQuiet' = TRUE
            /\ settled' = (settled /\ failed = {})
            /\ rst' = IF failed = {} THEN rst ELSE NoRst
            /\ faults' = IF failed = {} THEN faults ELSE faults + 1
            /\ UNCHANGED <<cur, todo, quiet>>
  /\ UNCHANGED <<remote, etagSeq, ledger, lastInsertRowid, clock, vpath, view, other, resp, diffState, splitState>>

\* a cycle begun by the ticker, or by the first sync of Start, while the context is live
SyncStart(listErr, failed) ==
  /\ sync_list(listErr, failed)
  /\ UNCHANGED shutdown

\* leave the current blob and go on with the next one of the listing
NextBlob ==
  /\ pc' = "process"
  /\ idx' = idx + 1
  /\ cur' = NoCur
  /\ UNCHANGED <<blobs, todo>>

\* a plausible slip: the error of one blob ends the cycle ("return" for "log and go on")
AfterBlobError_returns ==
  /\ pc' = "idle"
  /\ idx' = 1
  /\ blobs' = <<>>
  /\ cur' = NoCur
  /\ UNCHANGED todo

\* Syncer.sync, loop body: the error of processBlob is logged and the loop goes on
AfterBlobError == NextBlob

\* Syncer.handleNewFile up to and including UpsertFile
handleNewFile(blobInfo, fail, rid) ==
  IF fail = "GetBlob" \/ ~remote[blobInfo.FullPath].present \/ fail = "UpsertFile"
    THEN /\ AfterBlobError
         /\ IF fail \in {"GetBlob", "UpsertFile"} THEN HistFault ELSE HistFailure
         /\ UNCHANGED <<ledger, lastInsertRowid, clock, vpath>>
    ELSE LET blobContent == GetBlob(blobInfo.FullPath)
             file == [id |-> 0, blob_path |-> blobInfo.FullPath, etag |-> blobContent.ETag,
                      content_hash |-> blobContent.ContentHash,
                      last_modified |-> blobContent.LastModified, is_deleted |-> FALSE]
         IN /\ files' = UpsertRows(file)
            /\ nextFileId' = IF GetFile(file.blob_path) = NoFile THEN nextFileId + 1 ELSE nextFileId
            /\ lastInsertRowid' = IF GetFile(file.blob_path) = NoFile THEN lastInsertRowid \cup {nextFileId} ELSE lastInsertRowid
            /\ cur' = [kind |-> "new", fileID |-> UpsertFileID(file, rid), blob |-> blobContent]
            /\ pc' = "new_version"
            /\ HistOk
            /\ UNCHANGED <<versions, nextVersionId, clock, vpath, blobs, idx, todo>>

\* Syncer.handleModifiedFile up to and including its first ledger write
handleModifiedFile(blobInfo, existingFile, fail) ==
  IF fail = "GetBlob" \/ ~remote[blobInfo.FullPath].present
    THEN /\ AfterBlobError
         /\ IF fail = "GetBlob" THEN HistFault ELSE HistFailure
         /\ UNCHANGED <<ledger, lastInsertRowid, clock, vpath>>
    ELSE LET blobContent == GetBlob(blobInfo.FullPath)
         IN IF blobContent.ContentHash = existingFile.content_hash
              THEN \* content same, just update ETag
                   /\ IF fail = "UpsertFile"
                        THEN HistFault /\ AfterBlobError /\ UNCHANGED files
                        ELSE /\ HistOk
                             /\ NextBlob
                             /\ files' = UpsertRows([existingFile EXCEPT !.etag = blobContent.ETag,
                                                       !.last_modified = blobContent.LastModified])
                   /\ UNCHANGED <<versions, nextFileId, nextVersionId, lastInsertRowid, clock, vpath>>
              ELSE IF fail = "CreateVersion"
                   THEN /\ AfterBlobError
                        /\ HistFault
                        /\ UNCHANGED <<ledger, lastInsertRowid, clock, vpath>>
                   ELSE /\ nextVersionId <= MaxVersions
                        /\ versions' = CreateVersionRows(
                             [id |-> 0, file_id |-> existingFile.id, content |-> blobContent.Content,
                              content_hash |-> blobContent.ContentHash, change_type |-> ChangeTypeModified,
                              captured_at |-> clock + 1, blob_etag |-> blobContent.ETag,
                              blob_last_modified |-> blobContent.LastModified])
                        /\ nextVersionId' = nextVersionId + 1
                        /\ lastInsertRowid' = lastInsertRowid \cup {nextVersionId}
                        /\ clock' = clock + 1
                        /\ vpath' = Append(vpath, blobInfo.FullPath)
                        /\ cur' = [kind |-> "mod", file |-> existingFile, blob |-> blobContent]
                        /\ pc' = "mod_upsert"
                        /\ HistOk
                        /\ UNCHANGED <<files, nextFileId, blobs, idx, todo>>

\* a plausible slip: processBlob without the ETag comparison downloads every listed blob
ProcessBlob_noQuickCheck(fail, rid) ==
  /\ pc = "process"
  /\ idx <= Len(blobs)
  /\ LET blobInfo == blobs[idx]
         existingFile == GetFile(blobInfo.FullPath)
     IN /\ seenPaths' = seenPaths \cup {blobInfo.FullPath}
        /\ IF fail = "GetFile"
             THEN /\ AfterBlobError
                  /\ HistFault
                  /\ UNCHANGED <<ledger, lastInsertRowid, clock, vpath>>
           ELSE IF existingFile = NoFile
             THEN handleNewFile(blobInfo, fail, rid)
           ELSE IF existingFile.is_deleted
             THEN handleNewFile(blobInfo, fail, rid)
           ELSE handleModifiedFile(blobInfo, existingFile, fail)
  /\ UNCHANGED <<remote, etagSeq, failedScopes, view, other, resp, diffState, shutdown, splitState>>

\* Syncer.sync, loop body: seenPaths[FullPath] = true; processBlob
ProcessBlob(fail, rid) ==
  /\ pc = "process"
  /\ idx <= Len(blobs)
  /\ LET blobInfo == blobs[idx]
         existingFile == GetFile(blobInfo.FullPath)
     IN /\ seenPaths' = seenPaths \cup {blobInfo.FullPath}
        /\ IF fail = "GetFile"
             THEN /\ AfterBlobError
                  /\ HistFault
                  /\ UNCHANGED <<ledger, lastInsertRowid, clock, vpath>>
           ELSE IF existingFile = NoFile
             THEN handleNewFile(blobInfo, fail, rid)
           ELSE IF existingFile.is_deleted
             THEN handleNewFile(blobInfo, fail, rid)
           ELSE IF existingFile.etag = blobInfo.ETag
             THEN /\ NextBlob
                  /\ HistOk
                  /\ UNCHANGED <<ledger, lastInsertRowid, clock, vpath>>
           ELSE handleModifiedFile(blobInfo, existingFile, fail)
  /\ UNCHANGED <<remote, etagSeq, failedScopes, view, other, resp, diffState, shutdown, splitState>>

\* Syncer.handleNewFile, second write: CreateVersion(created)
NewFileCreateVersion(fail) ==
  /\ pc = "new_version"
  /\ IF fail = "CreateVersion"
       THEN /\ HistFault
            /\ AfterBlobError
            /\ UNCHANGED <<versions, nextVersionId, lastInsertRowid, clock, vpath>>
       ELSE /\ nextVersionId <= MaxVersions
            /\ versions' = CreateVersionRows(
                 [id |-> 0, file_id |-> cur.fileID, content |-> cur.blob.Content,
                  content_hash |-> cur.blob.ContentHash, change_type |-> ChangeTypeCreated,
                  captured_at |-> clock + 1, blob_etag |-> cur.blob.ETag,
                  blob_last_modified |-> cur.blob.LastModified])
            /\ nextVersionId' = nextVersionId + 1
            /\ lastInsertRowid' = lastInsertRowid \cup {nextVersionId}
            /\ clock' = clock + 1
            /\ vpath' = Append(vpath, cur.blob.FullPath)
            /\ HistOk
            /\ NextBlob
  /\ UNCHANGED <<remote, etagSeq, files, nextFileId, seenPaths, failedScopes, view, other, resp, diffState, shutdown, splitState>>

\* Syncer.handleModifiedFile, second write: UpsertFile(existingFile)
ModifiedUpsertFile(fail) ==
  /\ pc = "mod_upsert"
  /\ IF fail = "UpsertFile"
       THEN HistFault /\ AfterBlobError /\ UNCHANGED files
       ELSE /\ HistOk
            /\ NextBlob
            /\ files' = UpsertRows([cur.file EXCEPT !.etag = cur.blob.ETag,
                                      !.content_hash = cur.blob.ContentHash,
                                      !.last_modified = cur.blob.LastModified])
  /\ UNCHANGED <<remote, etagSeq, versions, nextFileId, nextVersionId, lastInsertRowid, clock,
                 seenPaths, vpath, failedScopes, view, other, resp, diffState, shutdown, splitState>>

\* a plausible slip: the test "if file.IsDeleted { continue }" is missing
SkipInCheckDeleted_seenOnly(file) == file.blob_path \in seenPaths

\* a plausible slip: the loop does not consult seenPaths
SkipInCheckDeleted_deletedOnly(file) == file.is_deleted

\* Syncer.checkDeleted: the rows the loop passes over (already deleted, or seen in the listing)
SkipInCheckDeleted(file) == file.is_deleted \/ file.blob_path \in seenPaths

\* Syncer.checkDeleted, up to the first row the loop acts on: ListFiles, and the rows of
\* that snapshot the loop passes over with "continue" (they cause no read and no write)
CheckDeletedStart(fail) ==
  /\ pc = "process"
  /\ idx > Len(blobs)
  /\ pc' = "check"
  /\ IF fail = "ListFiles"
       THEN HistFault /\ todo' = <<>>
       ELSE HistOk /\ todo' = SelectSeq(ListedPaths(1), LAMBDA p : ~SkipInCheckDeleted(GetFile(p)))
  \* the listing and the seen set are not read any more
  /\ blobs' = <<>>
  /\ idx' = 1
  /\ seenPaths' = {}
  /\ UNCHANGED <<remote, etagSeq, ledger, lastInsertRowid, clock, cur, vpath, failedScopes, view, other, resp, diffState, shutdown, splitState>>

\* Syncer.checkDeleted, one iteration of the loop up to and including CreateVersion(deleted)
CheckDeletedFile(fail) ==
  /\ pc = "check"
  /\ todo # <<>>
  /\ LET file == GetFile(Head(todo))
         lastVersion == GetLatestVersion(file.id)
     IN IF fail \in {"GetLatestVersion", "CreateVersion"}
          THEN /\ todo' = Tail(todo)
               /\ HistFault
               /\ UNCHANGED <<ledger, lastInsertRowid, clock, vpath, pc, cur>>
        ELSE /\ nextVersionId <= MaxVersions
             /\ versions' = CreateVersionRows(
                  [id |-> 0, file_id |-> file.id, content |-> "",
                   content_hash |-> IF lastVersion # NoVersion THEN lastVersion.content_hash ELSE "",
                   change_type |-> ChangeTypeDeleted, captured_at |-> clock + 1,
                   blob_etag |-> 0, blob_last_modified |-> 0])
             /\ nextVersionId' = nextVersionId + 1
             /\ lastInsertRowid' = lastInsertRowid \cup {nextVersionId}
             /\ clock' = clock + 1
             /\ vpath' = Append(vpath, file.blob_path)
             /\ cur' = [kind |-> "del", blob_path |-> file.blob_path]
             /\ pc' = "del_mark"
             /\ HistOk
             /\ UNCHANGED <<files, nextFileId, todo>>
  /\ UNCHANGED <<remote, etagSeq, blobs, idx, seenPaths, failedScopes, view, other, resp, diffState, shutdown, splitState>>

\* Syncer.checkDeleted, second write of an iteration: MarkFileDeleted
DeletedMarkFile(fail) ==
  /\ pc = "del_mark"
  /\ IF fail = "MarkFileDeleted"
       THEN HistFault /\ UNCHANGED files
       ELSE HistOk /\ files' = MarkFileDeletedRows(cur.blob_path)
  /\ pc' = "check"
  /\ cur' = NoCur
  /\ todo' = Tail(todo)
  /\ UNCHANGED <<remote, etagSeq, versions, nextFileId, nextVersionId, lastInsertRowid, clock,
                 blobs, idx, seenPaths, vpath, failedScopes, view, other, resp, diffState, shutdown, splitState>>

\* Syncer.sync returns ("Sync cycle complete"); Start waits for the next tick
SyncEnd ==
  /\ pc = "check"
  /\ todo = <<>>
  /\ pc' = "idle"
  /\ failedScopes' = {}
  /\ settled' = cycleClean
  /\ quiet' = cycleQuiet
  /\ cycleClean' = FALSE
  /\ cycleQuiet' = FALSE
  /\ rst' = NoRst
  /\ UNCHANGED <<remote, etagSeq, ledger, lastInsertRowid, clock, blobs, idx, seenPaths, cur, todo, vpath,
                 faults, view, other, resp, diffState, shutdown, splitState>>

\* the process dies inside a cycle and is started again: the locals and the
\* connection are gone, the database file and the blob store stay
Crash ==
  /\ pc # "idle"
  /\ faults < MaxFaults
  /\ faults' = faults + 1
  /\ pc' = "idle"
  /\ blobs' = <<>>
  /\ idx' = 1
  /\ seenPaths' = {}
  /\ cur' = NoCur
  /\ todo' = <<>>
  /\ lastInsertRowid' = {}
  /\ failedScopes' = {}
  /\ cycleClean' = FALSE
  /\ cycleQuiet' = FALSE
  /\ settled' = FALSE
  /\ quiet' = FALSE
  /\ rst' = NoRst
  /\ UNCHANGED <<remote, etagSeq, ledger, clock, vpath, view, other, resp, diffState, shutdown, splitState>>

\* Syncer.SyncNow: a second goroutine may call s.sync while the goroutine of Start is
\* inside or between its own calls; the Syncer holds no lock.  The syncer actions act
\* on the locals of the goroutine that is running; Yield is the Go scheduler handing
\* the processor to the other goroutine, whose locals were parked in other.
Yield ==
  /\ other' = [who |-> IF other.who = "SyncNow" THEN "Start" ELSE "SyncNow",
               pc |-> pc, blobs |-> blobs, idx |-> idx, seenPaths |-> seenPaths,
               cur |-> cur, todo |-> todo]
  /\ pc' = other.pc
  /\ blobs' = other.blobs
  /\ idx' = other.idx
  /\ seenPaths' = other.seenPaths
  /\ cur' = other.cur
  /\ todo' = other.todo
  /\ UNCHANGED <<remote, etagSeq, ledger, lastInsertRowid, clock, history, view, resp, diffState, shutdown, splitState>>

\* ---------------------------------------------------------------- API
\* net/http status codes the handlers answer with
StatusOK == 200
StatusBadRequest == 400
StatusNotFound == 404
StatusInternalServerError == 500

\* what the history keeps of a successful restore issued between two cycles
RestoreRecord(path, version) ==
  IF pc = "idle" /\ GetFile(path) # NoFile
    THEN [path |-> path, content |-> version.content,
          wasDeleted |-> GetFile(path).is_deleted,
          sameHash |-> (ComputeHash(version.content) = GetFile(path).content_hash),
          vmax |-> nextVersionId - 1]
    ELSE NoRst

\* a plausible slip: the handler records the restore in the ledger itself
handleRestore_recordsVersion(path, versionID, fail) ==
  LET version == GetVersion(versionID)
  IN IF path = "" \/ fail \in {"ParseInt", "GetVersion", "UploadBlob"} \/ version = NoVersion
       THEN UNCHANGED vars
       ELSE /\ etagSeq < MaxRemoteWrites
            /\ nextVersionId <= MaxVersions
            /\ remote' = [remote EXCEPT ![path] = NewBlob(version.content)]
            /\ etagSeq' = etagSeq + 1
            /\ HistUpstreamChange
            /\ rst' = RestoreRecord(path, version)
            /\ versions' = CreateVersionRows([version EXCEPT !.change_type = ChangeTypeModified,
                                                !.captured_at = clock + 1])
            /\ nextVersionId' = nextVersionId + 1
            /\ lastInsertRowid' = lastInsertRowid \cup {nextVersionId}
            /\ clock' = clock + 1
            /\ vpath' = Append(vpath, path)
            /\ resp' = StatusOK
            /\ UNCHANGED <<files, nextFileId, syncLocals, failedScopes, view, other, diffState, shutdown, splitState>>

\* a plausible slip: the error of the upload is dropped and success is answered
handleRestore_ignoresUploadError(path, versionID, fail) ==
  LET version == GetVersion(versionID)
      refused == UNCHANGED <<remote, etagSeq, cycleClean, cycleQuiet, settled, quiet, faults, rst>>
  IN /\ IF path = "" \/ fail = "ParseInt"
          THEN resp' = StatusBadRequest /\ refused
        ELSE IF fail = "GetVersion"
          THEN resp' = StatusInternalServerError /\ refused
        ELSE IF version = NoVersion
          THEN resp' = StatusNotFound /\ refused
        ELSE IF fail = "UploadBlob"
          THEN resp' = StatusOK /\ refused
          ELSE /\ etagSeq < MaxRemoteWrites
               /\ remote' = [remote EXCEPT ![path] = NewBlob(version.content)]
               /\ etagSeq' = etagSeq + 1
               /\ HistUpstreamChange
               /\ rst' = RestoreRecord(path, version)
               /\ resp' = StatusOK
     /\ UNCHANGED <<ledger, lastInsertRowid, clock, syncLocals, vpath, failedScopes, view, other, diffState, shutdown, splitState>>

\* Server.handleRestore: the path and the id are checked, GetVersion, then
\* UploadBlobByFullPath(path, content); every early return answers with an error
\* status.  fail = "ParseInt": the versionID of the URL is not a number.
handleRestore(path, versionID, fail) ==
  LET version == GetVersion(versionID)
      refused == UNCHANGED <<remote, etagSeq, cycleClean, cycleQuiet, settled, quiet, faults, rst>>
  IN /\ IF path = "" \/ fail = "ParseInt"
          THEN resp' = StatusBadRequest /\ refused
        ELSE IF fail = "GetVersion"
          THEN resp' = StatusInternalServerError /\ refused
        ELSE IF version = NoVersion
          THEN resp' = StatusNotFound /\ refused
        ELSE IF fail = "UploadBlob"
          THEN resp' = StatusInternalServerError /\ refused
          ELSE /\ etagSeq < MaxRemoteWrites
               /\ remote' = [remote EXCEPT ![path] = NewBlob(version.content)]
               /\ etagSeq' = etagSeq + 1
               /\ HistUpstreamChange
               /\ rst' = RestoreRecord(path, version)
               /\ resp' = StatusOK
     /\ UNCHANGED <<ledger, lastInsertRowid, clock, syncLocals, vpath, failedScopes, view, other, diffState, shutdown, splitState>>

\* Server.handleListFiles: what a reader gets from ListFiles
handleListFiles ==
  /\ view' = ListFiles
  /\ resp' = StatusOK
  /\ UNCHANGED <<remote, etagSeq, ledger, lastInsertRowid, clock, syncLocals, history, other, diffState, shutdown, splitState>>

\* ------------------------------------------------------ specifications
SyncFailures == {"none", "GetFile", "GetBlob", "UpsertFile", "CreateVersion"}
CheckFailures == {"none", "GetLatestVersion", "CreateVersion"}
RestoreFailures == {"none", "ParseInt", "GetVersion", "UploadBlob"}
\* the requests a caller can make: any stored Version onto any path, an id that is not
\* stored, and a request whose store or upload call fails (the handler reads nothing of
\* the path before the upload, so one path stands for all in the requests that stop early)
RestoreRequests ==
  {<<p, id, "none">> : p \in Paths, id \in 1..(nextVersionId - 1)}
    \cup {<<PathOrder[1], nextVersionId, "none">>}
    \cup {<<PathOrder[1], 1, f>> : f \in RestoreFailures \ {"none"}}
    \cup {<<"", 1, "none">>}
\* the faults that can still be injected
Fails(S) == IF faults < MaxFaults THEN S ELSE {"none"}

Upstream ==
  \/ \E p \in Paths, c \in EnvContents : PutBlob(p, c)
  \/ \E p \in Paths : DeleteBlob(p)

Restore == \E r \in RestoreRequests : handleRestore(r[1], r[2], r[3])

\* the rowids result.LastInsertId() can return to UpsertFile for this blob: db.Exec runs
\* on any free connection of the pool (the API's readers hold the others), and after
\* the DO UPDATE branch the connection reports the rowid of its own last insert
LastInsertIds ==
  IF pc = "process" /\ idx <= Len(blobs) /\ GetFile(blobs[idx].FullPath) # NoFile
    THEN {0} \cup lastInsertRowid
    ELSE {0}

Scanner ==
  \/ \E failed \in (IF faults < MaxFaults THEN SUBSET Containers ELSE {{}}) : SyncStart(FALSE, failed)
  \/ faults < MaxFaults /\ SyncStart(TRUE, {})
  \/ \E fail \in Fails(SyncFailures), rid \in LastInsertIds : ProcessBlob(fail, rid)
  \/ \E fail \in Fails({"none", "CreateVersion"}) : NewFileCreateVersion(fail)
  \/ \E fail \in Fails({"none", "UpsertFile"}) : ModifiedUpsertFile(fail)
  \/ \E fail \in Fails({"none", "ListFiles"}) : CheckDeletedStart(fail)
  \/ \E fail \in Fails(CheckFailures) : CheckDeletedFile(fail)
  \/ \E fail \in Fails({"none", "MarkFileDeleted"}) : DeletedMarkFile(fail)
  \/ SyncEnd

Next == Upstream \/ Restore \/ Scanner

Spec == Init /\ [][Next]_vars

\* the same system with an API reader and no fault: every ledger call succeeds
ScannerNoFault ==
  \/ SyncStart(FALSE, {})
  \/ \E rid \in LastInsertIds : ProcessBlob("none", rid)
  \/ NewFileCreateVersion("none")
  \/ ModifiedUpsertFile("none")
  \/ CheckDeletedStart("none")
  \/ CheckDeletedFile("none")
  \/ DeletedMarkFile("none")
  \/ SyncEnd

\* ---------------------------------------------------------------- lookups of the API

\* bound: the longest version id string a request carries
MaxIdLen == 2

\* the characters of the version id strings: digits, a sign and a letter
IdChars == {"0", "1", "2", "-", "x"}

Digits == {"0", "1", "2", "3", "4", "5", "6", "7", "8", "9"}

DigitVal == [c \in Digits |->
               CASE c = "0" -> 0 [] c = "1" -> 1 [] c = "2" -> 2 [] c = "3" -> 3 [] c = "4" -> 4
                 [] c = "5" -> 5 [] c = "6" -> 6 [] c = "7" -> 7 [] c = "8" -> 8 [] c = "9" -> 9]

\* the strings of at most MaxIdLen characters, as sequences of characters
IdStrs == UNION {[1..n -> IdChars] : n \in 0..MaxIdLen}

RECURSIVE ParseUint(_, _)
ParseUint(s, acc) ==
  IF s = <<>> THEN acc ELSE ParseUint(Tail(s), acc * 10 + DigitVal[Head(s)])

\* strconv.ParseInt(s, 10, 64): an optional sign, then one decimal digit or
\* more; anything else is a syntax error (a string this short cannot leave
\* the range of int64)
ParseInt(s) ==
  IF s = <<>> THEN [val |-> 0, err |-> "syntax"]
  ELSE LET neg == Head(s) = "-"
           body == IF Head(s) \in {"+", "-"} THEN Tail(s) ELSE s
       IN IF body = <<>> \/ \E i \in 1..Len(body) : body[i] \notin Digits
            THEN [val |-> 0, err |-> "syntax"]
            ELSE [val |-> IF neg THEN 0 - ParseUint(body, 0) ELSE ParseUint(body, 0), err |-> ""]

\* SQLiteStore.GetFile with its error: no row is (nil, nil), any other failure
\* of the query is (nil, err)
GetFileResult(blobPath, ioFail) ==
  IF ioFail THEN [val |-> NoFile, err |-> "failed to get file"]
            ELSE [val |-> GetFile(blobPath), err |-> ""]

\* SQLiteStore.GetFileByID
GetFileByIDResult(id, ioFail) ==
  IF ioFail THEN [val |-> NoFile, err |-> "failed to get file"]
  ELSE IF \E f \in files : f.id = id
    THEN [val |-> CHOOSE f \in files : f.id = id, err |-> ""]
    ELSE [val |-> NoFile, err |-> ""]

\* a plausible slip: sql.ErrNoRows is not told apart from the other errors
GetVersionResult_noRowsIsError(id, ioFail) ==
  IF ioFail \/ GetVersion(id) = NoVersion
    THEN [val |-> NoVersion, err |-> "failed to get version"]
    ELSE [val |-> GetVersion(id), err |-> ""]

\* SQLiteStore.GetVersion with its error
GetVersionResult(id, ioFail) ==
  IF ioFail THEN [val |-> NoVersion, err |-> "failed to get version"]
            ELSE [val |-> GetVersion(id), err |-> ""]

\* SQLiteStore.GetLatestVersion with its error
GetLatestVersionResult(fileID, ioFail) ==
  IF ioFail THEN [val |-> NoVersion, err |-> "failed to get latest version"]
            ELSE [val |-> GetLatestVersion(fileID), err |-> ""]

\* what a lookup handler leaves alone: everything but the response
lookupOnly == UNCHANGED <<remote, etagSeq, ledger, lastInsertRowid, clock, syncLocals, history, view, other, diffState, shutdown, splitState>>

\* Server.handleGetFile: the status it answers
handleGetFile_status(path, fail) ==
  LET r == GetFileResult(path, fail = "GetFile")
  IN IF path = "" THEN StatusBadRequest
     ELSE IF r.err # "" THEN StatusInternalServerError
     ELSE IF r.val = NoFile THEN StatusNotFound
     ELSE StatusOK

\* Server.handleGetFile
handleGetFile(path, fail) ==
  /\ resp' = handleGetFile_status(path, fail)
  /\ lookupOnly

\* Server.handleGetVersion: the status it answers
handleGetVersion_status(versionIDStr, fail) ==
  LET versionID == ParseInt(versionIDStr)
      r == GetVersionResult(versionID.val, fail = "GetVersion")
  IN IF versionID.err # "" THEN StatusBadRequest
     ELSE IF r.err # "" THEN StatusInternalServerError
     ELSE IF r.val = NoVersion THEN StatusNotFound
     ELSE StatusOK

\* Server.handleGetVersion
handleGetVersion(versionIDStr, fail) ==
  /\ resp' = handleGetVersion_status(versionIDStr, fail)
  /\ lookupOnly

\* Server.handleDiff: the status it answers; both ids are parsed, then each
\* Version is looked up
handleDiff_status(v1Str, v2Str, fail) ==
  LET v1 == ParseInt(v1Str)
      v2 == ParseInt(v2Str)
      r1 == GetVersionResult(v1.val, fail = "GetVersion1")
      r2 == GetVersionResult(v2.val, fail = "GetVersion2")
  IN IF v1.err # "" \/ v2.err # "" THEN StatusBadRequest
     ELSE IF r1.err # "" THEN StatusInternalServerError
     ELSE IF r1.val = NoVersion THEN StatusNotFound
     ELSE IF r2.err # "" THEN StatusInternalServerError
     ELSE IF r2.val = NoVersion THEN StatusNotFound
     ELSE StatusOK

\* Server.handleDiff
handleDiff(v1Str, v2Str, fail) ==
  /\ resp' = handleDiff_status(v1Str, v2Str, fail)
  /\ lookupOnly

\* the requests of the lookup handlers: every path of the universe, the empty
\* path and a path nothing was ever stored at; every id string; for the diff,
\* the id strings of one character at most
PathParams == Paths \cup {"", "c9/z"}

DiffIdStrs == {s \in IdStrs : Len(s) <= 1}

GetFileReq == \E path \in PathParams, fail \in {"none", "GetFile"} : handleGetFile(path, fail)

GetVersionReq == \E str \in IdStrs, fail \in {"none", "GetVersion"} : handleGetVersion(str, fail)

DiffReq ==
  \E s1 \in DiffIdStrs, s2 \in DiffIdStrs, fail \in {"none", "GetVersion1", "GetVersion2"} :
    handleDiff(s1, s2, fail)

NextApi == Upstream \/ ScannerNoFault \/ GetFileReq \/ GetVersionReq \/ DiffReq

SpecApi == Init /\ [][NextApi]_vars

NextReaders == Upstream \/ ScannerNoFault \/ handleListFiles

SpecReaders == Init /\ [][NextReaders]_vars

\* the same system where the only fault is the death of the process
NextCrash == Upstream \/ ScannerNoFault \/ Crash

SpecCrash == Init /\ [][NextCrash]_vars

\* the scanner driven by Start's ticker and by a caller of SyncNow
NextSyncNow == Upstream \/ ScannerNoFault \/ Yield

SpecSyncNow == Init /\ [][NextSyncNow]_vars

\* ---------------------------------------------------------------- package diff

\* bound: the longest text handed to Compare
MaxTextLen == 3
\* cycles that the select of Start may still begin on ticker.C once ctx.Done() is ready
MaxLateCycles == 1

\* a text is a sequence of characters; the characters are two letters and the
\* line feed
LF == "\n"

TextChars == {"x", "y", LF}

Texts == UNION {[1..n -> TextChars] : n \in 0..MaxTextLen}

DiffEqual == "equal"
DiffDelete == "delete"
DiffInsert == "insert"

DiffLineContext == "context"
DiffLineAdded == "added"
DiffLineRemoved == "removed"

\* the lines of a text as DiffLinesToChars cuts them: each line keeps its line
\* feed, the last line may have none
RECURSIVE LinesOf(_, _)
LinesOf(text, line) ==
  IF text = <<>> THEN (IF line = <<>> THEN <<>> ELSE <<line>>)
  ELSE IF Head(text) = LF THEN <<Append(line, LF)>> \o LinesOf(Tail(text), <<>>)
  ELSE LinesOf(Tail(text), Append(line, Head(text)))

LineSet(text) == {LinesOf(text, <<>>)[i] : i \in 1..Len(LinesOf(text, <<>>))}

\* the texts whose line-mode difference needs no search: equal texts, or texts
\* with no line in common (one of them may be empty)
NoCommonLine(text1, text2) == LineSet(text1) \cap LineSet(text2) = {}

\* DiffLinesToChars, DiffMain(checklines = false), DiffCharsToLines on texts
\* that are equal or have no line in common: equal texts give one equality
\* (none when empty), an empty side gives the other side as one edit, and
\* otherwise the whole old text is deleted and the whole new text inserted
DiffMain(text1, text2) ==
  IF text1 = text2 THEN (IF text1 = <<>> THEN <<>> ELSE <<[Type |-> DiffEqual, Text |-> text1]>>)
  ELSE IF text1 = <<>> THEN <<[Type |-> DiffInsert, Text |-> text2]>>
  ELSE IF text2 = <<>> THEN <<[Type |-> DiffDelete, Text |-> text1]>>
  ELSE <<[Type |-> DiffDelete, Text |-> text1], [Type |-> DiffInsert, Text |-> text2]>>

\* DiffCommonOverlap: the length of the longest suffix of text1 that is a
\* prefix of text2
DiffCommonOverlap(text1, text2) ==
  LET n == IF Len(text1) < Len(text2) THEN Len(text1) ELSE Len(text2)
      fits == {k \in 0..n : SubSeq(text1, Len(text1) - k + 1, Len(text1)) = SubSeq(text2, 1, k)}
  IN CHOOSE k \in fits : \A j \in fits : j <= k

\* DiffCleanupSemantic on the result of DiffMain above: with no equality
\* between two edits nothing is eliminated or shifted, and a deletion followed
\* by an insertion is cut where one overlaps the other by half its length or
\* more; of two overlaps of the same length the first (end of the deletion,
\* start of the insertion) is taken
DiffCleanupSemantic(diffs) ==
  IF Len(diffs) = 2 /\ diffs[1].Type = DiffDelete /\ diffs[2].Type = DiffInsert
    THEN LET deletion == diffs[1].Text
             insertion == diffs[2].Text
             overlapLength1 == DiffCommonOverlap(deletion, insertion)
             overlapLength2 == DiffCommonOverlap(insertion, deletion)
         IN IF overlapLength1 >= overlapLength2
              THEN IF 2 * overlapLength1 >= Len(deletion) \/ 2 * overlapLength1 >= Len(insertion)
                     THEN <<[Type |-> DiffDelete,
                             Text |-> SubSeq(deletion, 1, Len(deletion) - overlapLength1)],
                            [Type |-> DiffEqual, Text |-> SubSeq(insertion, 1, overlapLength1)],
                            [Type |-> DiffInsert,
                             Text |-> SubSeq(insertion, overlapLength1 + 1, Len(insertion))]>>
                     ELSE diffs
              ELSE IF 2 * overlapLength2 >= Len(deletion) \/ 2 * overlapLength2 >= Len(insertion)
                     THEN <<[Type |-> DiffInsert,
                             Text |-> SubSeq(insertion, 1, Len(insertion) - overlapLength2)],
                            [Type |-> DiffEqual, Text |-> SubSeq(deletion, 1, overlapLength2)],
                            [Type |-> DiffDelete,
                             Text |-> SubSeq(deletion, overlapLength2 + 1, Len(deletion))]>>
                     ELSE diffs
    ELSE diffs

\* strings.Split(text, "\n"): the pieces between the line feeds, one more than
\* there are line feeds
RECURSIVE Split(_, _)
Split(text, piece) ==
  IF text = <<>> THEN <<piece>>
  ELSE IF Head(text) = LF THEN <<piece>> \o Split(Tail(text), <<>>)
  ELSE Split(Tail(text), Append(piece, Head(text)))

\* generateLineDiff, the lines of one diff: the split text without an empty
\* last element
DiffLines(text) ==
  LET diffLines == Split(text, <<>>)
  IN IF diffLines[Len(diffLines)] = <<>> THEN SubSeq(diffLines, 1, Len(diffLines) - 1)
                                         ELSE diffLines

\* generateLineDiff, inner loop: the lines of one diff, numbered from
\* oldLineNum and newLineNum (0 is the omitted line number)
DiffLineRecords(type, contents, oldLineNum, newLineNum) ==
  [i \in 1..Len(contents) |->
     CASE type = DiffEqual ->
            [Type |-> DiffLineContext, OldLineNum |-> oldLineNum + i - 1,
             NewLineNum |-> newLineNum + i - 1, Content |-> contents[i]]
       [] type = DiffDelete ->
            [Type |-> DiffLineRemoved, OldLineNum |-> oldLineNum + i - 1,
             NewLineNum |-> 0, Content |-> contents[i]]
       [] type = DiffInsert ->
            [Type |-> DiffLineAdded, OldLineNum |-> 0,
             NewLineNum |-> newLineNum + i - 1, Content |-> contents[i]]]

\* generateLineDiff, outer loop
RECURSIVE generateLineDiff_from(_, _, _)
generateLineDiff_from(diffs, oldLineNum, newLineNum) ==
  IF diffs = <<>> THEN <<>>
  ELSE LET diff == Head(diffs)
           contents == DiffLines(diff.Text)
           n == Len(contents)
       IN DiffLineRecords(diff.Type, contents, oldLineNum, newLineNum)
            \o generateLineDiff_from(Tail(diffs),
                                     IF diff.Type = DiffInsert THEN oldLineNum ELSE oldLineNum + n,
                                     IF diff.Type = DiffDelete THEN newLineNum ELSE newLineNum + n)

\* generateUnifiedDiff: the two header lines, then every line of every diff
\* behind its sign
generateUnifiedDiff(diffs) ==
  LET lines == generateLineDiff_from(diffs, 1, 1)
  IN <<"--- old", "+++ new">> \o
     [i \in 1..Len(lines) |->
        <<CASE lines[i].Type = DiffLineContext -> " "
            [] lines[i].Type = DiffLineRemoved -> "-"
            [] lines[i].Type = DiffLineAdded -> "+">> \o lines[i].Content]

\* a plausible slip: the comparison of min is turned round
min_larger(a, b) == IF a > b THEN a ELSE b

min(a, b) == IF a < b THEN a ELSE b

\* generateLineDiff, the counters: one is advanced for every line of every
\* diff of its type
RECURSIVE generateLineDiff_stat(_, _)
generateLineDiff_stat(diffs, type) ==
  IF diffs = <<>> THEN 0
  ELSE (IF Head(diffs).Type = type THEN Len(DiffLines(Head(diffs).Text)) ELSE 0)
         + generateLineDiff_stat(Tail(diffs), type)

\* generateLineDiff: the lines and the statistics
generateLineDiff(diffs) ==
  LET lines == generateLineDiff_from(diffs, 1, 1)
      LinesAdded == generateLineDiff_stat(diffs, DiffInsert)
      LinesRemoved == generateLineDiff_stat(diffs, DiffDelete)
  IN [Lines |-> lines,
      Stats |-> [LinesAdded |-> LinesAdded, LinesRemoved |-> LinesRemoved,
                 LinesChanged |-> min(LinesAdded, LinesRemoved)]]

\* a plausible slip: the early return for equal contents is missing
Compare_noEarlyReturn(old, new) ==
  LET diffs == DiffCleanupSemantic(DiffMain(old, new))
  IN [HasChanges |-> TRUE,
      Lines |-> generateLineDiff(diffs).Lines,
      Stats |-> generateLineDiff(diffs).Stats,
      UnifiedDiff |-> generateUnifiedDiff(diffs),
      diffed |-> TRUE]

\* Compare; diffed tells whether the diff algorithm ran
Compare(old, new) ==
  IF old = new
    THEN [HasChanges |-> FALSE,
          Lines |-> <<>>,
          Stats |-> [LinesAdded |-> 0, LinesRemoved |-> 0, LinesChanged |-> 0],
          UnifiedDiff |-> <<>>,
          diffed |-> FALSE]
    ELSE LET diffs == DiffCleanupSemantic(DiffMain(old, new))
         IN [HasChanges |-> TRUE,
             Lines |-> generateLineDiff(diffs).Lines,
             Stats |-> generateLineDiff(diffs).Stats,
             UnifiedDiff |-> generateUnifiedDiff(diffs),
             diffed |-> TRUE]

\* a caller hands two texts to Compare: the same text twice, or two texts with
\* no line in common
InitDiff ==
  /\ InitVault
  /\ oldContent \in Texts
  /\ newContent \in Texts
  /\ oldContent = newContent \/ NoCommonLine(oldContent, newContent)
  /\ result = NoResult
  /\ ctxDone = FALSE
  /\ lateCycles = 0
  /\ apiDiff = <<>>
  /\ panes = NoPanes

CompareCall ==
  /\ result = NoResult
  /\ result' = Compare(oldContent, newContent)
  /\ UNCHANGED <<remote, etagSeq, ledger, lastInsertRowid, clock, syncLocals, history, view, other,
                 resp, oldContent, newContent, shutdown, splitState>>

NextDiff == CompareCall

SpecDiff == InitDiff /\ [][NextDiff]_vars

\* the scanner with injected failures and the upstream writers; the ticker of
\* Syncer.Start fires for ever and its goroutine is scheduled, so a scanner step
\* that stays possible is eventually taken; the upstream may stop at any time
NextLive == Upstream \/ Scanner

SpecLive == Init /\ [][NextLive]_vars /\ WF_vars(Scanner)

\* ---------------------------------------------------------------- claims
\* the file row of path p is marked deleted by this step
MarkedDeletedNow(p) ==
  /\ GetFile(p) # NoFile
  /\ ~GetFile(p).is_deleted
  /\ \E g \in files' : g.blob_path = p /\ g.is_deleted

\* this step appends a 'deleted' Version while classifying path p
TombstoneAppendedNow(p) ==
  \E v \in versions' \ versions : v.change_type = "deleted" /\ vpath'[v.id] = p

\* C1: in a cycle in which the listing of a container failed, no file of
\* that container is marked deleted and none gets a 'deleted' Version.
C1_DeletionSafety ==
  [][\A p \in Paths : ContainerOf(p) \in failedScopes =>
        ~MarkedDeletedNow(p) /\ ~TombstoneAppendedNow(p)]_vars

\* the file row f and the Versions agree: the row has a latest Version, a
\* deleted row has a 'deleted' one, a live row one with the row's hash
RowMatchesVersion(f) ==
  /\ VersionsOfFile(f.id) # {}
  /\ IF f.is_deleted
       THEN GetLatestVersion(f.id).change_type = "deleted"
       ELSE /\ GetLatestVersion(f.id).change_type # "deleted"
            /\ GetLatestVersion(f.id).content_hash = f.content_hash

\* C2: whenever the scanner is not between the two ledger writes of one
\* classification (also after a crash or a failed ledger call), every file
\* row has its matching Version and every Version its file row: both writes
\* of a unit are applied or none.
C2_AtomicUnit ==
  pc \in {"idle", "process", "check"} =>
    /\ \A f \in files : RowMatchesVersion(f)
    /\ \A v \in versions : \E f \in files : f.id = v.file_id

\* C3: what a reader gets from ListFiles while the scanner runs without any
\* fault never shows half a classification: no row with version_count 0 and
\* no 'deleted' latest Version on a row that is not deleted (or the reverse).
C3_NoPartialView ==
  \A r \in view :
    /\ r.version_count > 0
    /\ r.is_deleted <=> (r.latest_change_type = "deleted")

Resurrecting ==
  /\ pc = "new_version"
  /\ \E v \in versions : v.change_type = "deleted" /\ vpath[v.id] = cur.blob.FullPath

\* C5: the step that completes a resurrection leaves the file row not
\* deleted and appends exactly one Version, of classification 'created',
\* whose file_id is the id of the resurrected file row.
C5_Resurrection ==
  [][(Resurrecting /\ versions' # versions) =>
       \E v \in versions' :
         /\ versions' = versions \cup {v}
         /\ v.change_type = "created"
         /\ v.file_id = GetFile(cur.blob.FullPath).id
         /\ ~GetFile(cur.blob.FullPath).is_deleted]_vars

RestoredVersions == {v \in versions : v.id > rst.vmax /\ vpath[v.id] = rst.path}

\* the cycle that follows a restore has done all its work
CycleAfterRestoreDone == pc = "check" /\ todo = <<>> /\ rst # NoRst

C8_RestoreLeavesLedger ==
  [][(files' # files \/ versions' # versions) => (~Restore /\ Scanner)]_vars

\* a restore of a tracked path has succeeded
C8_Witness == rst # NoRst /\ versions # {}

\* C9: no step removes or changes a stored Version, and no step removes a
\* file row or changes its id or path.
C9_AppendOnly ==
  [][/\ versions' # versions => versions \subseteq versions'
     /\ files' # files =>
          \A f \in files : \E g \in files' : g.id = f.id /\ g.blob_path = f.blob_path]_vars

\* a file has a second Version and some file is tombstoned
C9_Witness ==
  /\ \E v, w \in versions : v.id # w.id /\ v.file_id = w.file_id
  /\ \E f \in files : f.is_deleted

\* C10: at most one file row per path, and the file_id of every Version is
\* the id of the file row of the path that was being classified.
C10_Referential ==
  /\ \A f, g \in files : f.blob_path = g.blob_path => f = g
  /\ \A v \in versions : \E f \in files : f.id = v.file_id /\ f.blob_path = vpath[v.id]

\* C11: every file row with is_deleted = TRUE has a most recent Version
\* (by captured_at), and that Version is 'deleted' with empty content.
C11_Tombstone ==
  \A f \in files :
    f.is_deleted =>
      /\ GetLatestVersion(f.id) # NoVersion
      /\ GetLatestVersion(f.id).change_type = "deleted"
      /\ GetLatestVersion(f.id).content = ""

\* C12: the transition that takes a file out of is_deleted (handleNewFile on
\* a tombstoned file, from its UpsertFile to its return) appends a Version of
\* classification 'created' for the path it classifies.
C12_UndeleteOnlyByCreated ==
  [][(Resurrecting /\ pc' # "new_version") =>
       \E v \in versions' \ versions :
         v.change_type = "created" /\ vpath'[v.id] = cur.blob.FullPath]_vars

\* the Versions of a file that are not tombstones
LiveVersionsOfFile(fileID) == {v \in VersionsOfFile(fileID) : v.change_type # "deleted"}

\* C13: whenever the scanner is not between the two ledger writes of a
\* classification, the content_hash of every file row equals the content_hash
\* of the most recent Version of that file that is not 'deleted' (a file with
\* no such Version is left out).
C13_HashAgreement ==
  pc \in {"idle", "process", "check"} =>
    \A f \in files : \A v \in LiveVersionsOfFile(f.id) :
      (\A w \in LiveVersionsOfFile(f.id) : w.captured_at <= v.captured_at)
        => f.content_hash = v.content_hash

\* C14: at most one sync cycle is executing at any time, whichever entry
\* point of the Syncer (Start's loop or SyncNow) started it.
C14_SequentialCycles == ~(pc # "idle" /\ other.pc # "idle")

\* the paths of the listing of the running cycle
ListedInCycle == {blobs[i].FullPath : i \in 1..Len(blobs)}

\* C15: inside the loop of a cycle every step, failed or not, keeps the
\* listing and goes on with the same or the next blob; deletion inference
\* starts only when every listed blob has been visited; its loop goes on with
\* the same or the next file row after every step, failed or not; and a
\* cycle that has its listing ends only after deletion inference.
C15_FailureIsolation ==
  [][/\ (pc \in {"process", "new_version", "mod_upsert"} /\ pc' \in {"process", "new_version", "mod_upsert"})
          => (blobs' = blobs /\ idx' \in {idx, idx + 1})
     /\ (pc \in {"process", "new_version", "mod_upsert"} /\ pc' \notin {"process", "new_version", "mod_upsert"})
          => (pc = "process" /\ pc' = "check" /\ idx > Len(blobs) /\ seenPaths = ListedInCycle)
     /\ (pc \in {"check", "del_mark"} /\ pc' \in {"check", "del_mark"})
          => (todo' = todo \/ (todo # <<>> /\ todo' = Tail(todo)))
     /\ (pc \in {"check", "del_mark"} /\ pc' = "idle") => (pc = "check" /\ todo = <<>>)]_vars

\* both blobs are upstream all along and listed; the first one failed (it
\* has no file row) and the second one got its file row and Version
C15_Witness ==
  /\ pc = "process"
  /\ Len(blobs) = 2
  /\ idx = 3
  /\ etagSeq = 0
  /\ \A p \in Paths : remote[p].present
  /\ faults = 1
  /\ GetFile(blobs[1].FullPath) = NoFile
  /\ GetFile(blobs[2].FullPath) # NoFile
  /\ VersionsOfFile(GetFile(blobs[2].FullPath).id) # {}

\* the Versions appended while path p was being classified
VersionsOfPath(p) == {v \in versions : vpath[v.id] = p}

\* the ledger has caught up with the blob at path p: a live file row with the
\* hash of the blob's content, and a most recent Version with that content
CaughtUp(p) ==
  /\ GetFile(p) # NoFile
  /\ ~GetFile(p).is_deleted
  /\ GetFile(p).content_hash = ComputeHash(remote[p].content)
  /\ \E v \in VersionsOfPath(p) :
       /\ v.content = remote[p].content
       /\ \A w \in VersionsOfPath(p) : w.captured_at <= v.captured_at

\* C16: under a fair scheduling of the scanner, whatever failed part-way in
\* earlier cycles, from some point on the ledger has caught up with every
\* blob present upstream (or the versions table has reached the bound of
\* the model).
C16_RetryByNextCycle ==
  <>[](nextVersionId > MaxVersions \/ \A p \in Paths : remote[p].present => CaughtUp(p))

\* C17: a restore request whose version id names no stored Version is answered
\* 404 (when the request is well formed and the lookup itself works) and never
\* writes to the object store; a failing upload is answered 500 and leaves the
\* object store unchanged; 200 is answered only when the blob at the path now
\* holds the content of the Version.
C17_RestoreOutcome ==
  [][(resp' # resp \/ remote' # remote) =>
       \A r \in RestoreRequests :
         handleRestore(r[1], r[2], r[3]) =>
           /\ GetVersion(r[2]) = NoVersion =>
                /\ remote' = remote
                /\ resp' # StatusOK
                /\ (r[1] # "" /\ r[3] = "none") => resp' = StatusNotFound
           /\ (r[3] = "UploadBlob" /\ r[1] # "" /\ GetVersion(r[2]) # NoVersion) =>
                /\ remote' = remote
                /\ resp' = StatusInternalServerError
           /\ resp' = StatusNotFound => GetVersion(r[2]) = NoVersion
           /\ resp' = StatusOK =>
                /\ GetVersion(r[2]) # NoVersion
                /\ remote'[r[1]].present
                /\ remote'[r[1]].content = GetVersion(r[2]).content]_vars

C17_Witness == resp = StatusNotFound /\ versions # {}

\* a version id string in the form strconv.ParseInt accepts in base 10
IsDecimalId(s) ==
  /\ Len(s) > 0
  /\ LET first == IF s[1] \in {"+", "-"} THEN 2 ELSE 1
     IN /\ first <= Len(s)
        /\ \A i \in first..Len(s) : s[i] \in Digits

\* the number a string of digits writes in positional notation
RECURSIVE DecimalValue(_)
DecimalValue(s) ==
  IF s = <<>> THEN 0
  ELSE DecimalValue(SubSeq(s, 1, Len(s) - 1)) * 10 + DigitVal[s[Len(s)]]

\* the number a well-formed id string writes (0, which no Version has, for
\* the others)
IdOf(s) ==
  IF ~IsDecimalId(s) THEN 0
  ELSE IF s[1] = "-" THEN 0 - DecimalValue(Tail(s))
  ELSE IF s[1] = "+" THEN DecimalValue(Tail(s))
  ELSE DecimalValue(s)

\* C18: the four lookups return the absent value and no error for a key that is
\* not in the ledger, and an error only when the storage fails; a lookup
\* handler answers 400 exactly for a malformed request, 500 exactly for a
\* storage failure of a well-formed request, 404 exactly when the request is
\* well formed, the storage works and the key is absent, and 200 otherwise.
C18_AbsentIsNotAnError ==
  /\ \A path \in PathParams :
       /\ GetFileResult(path, FALSE).err = ""
       /\ GetFileResult(path, FALSE).val = NoFile <=> ~\E f \in files : f.blob_path = path
       /\ GetFileResult(path, TRUE).err # ""
  /\ \A id \in 0..(MaxVersions + 1) :
       /\ GetVersionResult(id, FALSE).err = ""
       /\ GetVersionResult(id, FALSE).val = NoVersion <=> ~\E v \in versions : v.id = id
       /\ GetVersionResult(id, TRUE).err # ""
       /\ GetFileByIDResult(id, FALSE).err = ""
       /\ GetFileByIDResult(id, FALSE).val = NoFile <=> ~\E f \in files : f.id = id
       /\ GetLatestVersionResult(id, FALSE).err = ""
       /\ GetLatestVersionResult(id, FALSE).val = NoVersion <=> ~\E v \in versions : v.file_id = id
  /\ \A path \in PathParams, fail \in {"none", "GetFile"} :
       LET absent == ~\E f \in files : f.blob_path = path
           status == handleGetFile_status(path, fail)
       IN /\ status = StatusBadRequest <=> path = ""
          /\ status = StatusInternalServerError <=> (path # "" /\ fail = "GetFile")
          /\ status = StatusNotFound <=> (path # "" /\ fail = "none" /\ absent)
          /\ status = StatusOK <=> (path # "" /\ fail = "none" /\ ~absent)
  /\ \A str \in IdStrs, fail \in {"none", "GetVersion"} :
       LET absent == ~\E v \in versions : v.id = IdOf(str)
           status == handleGetVersion_status(str, fail)
       IN /\ status = StatusBadRequest <=> ~IsDecimalId(str)
          /\ status = StatusInternalServerError <=> (IsDecimalId(str) /\ fail = "GetVersion")
          /\ status = StatusNotFound <=> (IsDecimalId(str) /\ fail = "none" /\ absent)
          /\ status = StatusOK <=> (IsDecimalId(str) /\ fail = "none" /\ ~absent)
  /\ \A s1 \in DiffIdStrs, s2 \in DiffIdStrs, fail \in {"none", "GetVersion1", "GetVersion2"} :
       LET absent1 == ~\E v \in versions : v.id = IdOf(s1)
           absent2 == ~\E v \in versions : v.id = IdOf(s2)
           wellFormed == IsDecimalId(s1) /\ IsDecimalId(s2)
           status == handleDiff_status(s1, s2, fail)
       IN /\ status = StatusBadRequest <=> ~wellFormed
          /\ status = StatusNotFound =>
               (wellFormed /\ (absent1 \/ absent2) /\ (absent1 => fail # "GetVersion1"))
          /\ status = StatusInternalServerError => (wellFormed /\ fail # "none")
          /\ status = StatusOK => (wellFormed /\ ~absent1 /\ ~absent2)
          /\ (wellFormed /\ fail = "none") =>
               status = IF absent1 \/ absent2 THEN StatusNotFound ELSE StatusOK

\* a well-formed request for a Version that is not stored, while others are,
\* has been answered 404
C18_Witness == resp = StatusNotFound /\ versions # {} /\ pc = "idle" /\ nextVersionId > 2

\* C19: Compare of a text with itself returns has_changes = false, no line,
\* zero statistics, and does not run the diff algorithm; Compare of two
\* different texts returns has_changes = true.
C19_CompareIdentical ==
  result # NoResult =>
    /\ oldContent = newContent =>
         /\ result.HasChanges = FALSE
         /\ result.Lines = <<>>
         /\ result.Stats.LinesAdded = 0
         /\ result.Stats.LinesRemoved = 0
         /\ result.Stats.LinesChanged = 0
         /\ ~result.diffed
    /\ oldContent # newContent => result.HasChanges = TRUE

\* Compare has returned for a non-empty text of two lines compared with itself
C19_Witness ==
  /\ result # NoResult
  /\ oldContent = newContent
  /\ Len(LinesOf(oldContent, <<>>)) = 2

\* C20: what Compare(a, b) counts as added, Compare(b, a) counts as removed,
\* and the other way round.
C20_DiffSymmetry ==
  result # NoResult =>
    /\ result.Stats.LinesAdded = Compare(newContent, oldContent).Stats.LinesRemoved
    /\ result.Stats.LinesRemoved = Compare(newContent, oldContent).Stats.LinesAdded

\* the lines of a given type in a line list
LinesOfType(lines, type) == {i \in 1..Len(lines) : lines[i].Type = type}

\* C21: in every result of Compare lines_added is the number of 'added' lines
\* of the line list, lines_removed the number of 'removed' lines, and
\* lines_changed the smaller of the two.
C21_DiffStatistics ==
  result # NoResult =>
    /\ result.Stats.LinesAdded = Cardinality(LinesOfType(result.Lines, DiffLineAdded))
    /\ result.Stats.LinesRemoved = Cardinality(LinesOfType(result.Lines, DiffLineRemoved))
    /\ result.Stats.LinesChanged <= result.Stats.LinesAdded
    /\ result.Stats.LinesChanged <= result.Stats.LinesRemoved
    /\ result.Stats.LinesChanged \in {result.Stats.LinesAdded, result.Stats.LinesRemoved}

\* Compare has returned a diff with two added lines and one removed line
C21_Witness ==
  /\ result # NoResult
  /\ Cardinality(LinesOfType(result.Lines, DiffLineAdded)) = 2
  /\ Cardinality(LinesOfType(result.Lines, DiffLineRemoved)) = 1

\* a line without its line feed
Chomp(line) == IF line # <<>> /\ line[Len(line)] = LF THEN SubSeq(line, 1, Len(line) - 1) ELSE line

OneLine(text) == Len(LinesOf(text, <<>>)) = 1

\* C22: the diff of two different texts of one line each is the old line as
\* one 'removed' line followed by the new line as one 'added' line, with
\* lines_removed = lines_added = lines_changed = 1 and has_changes = true.
C22_SingleLineReplacement ==
  (result # NoResult /\ OneLine(oldContent) /\ OneLine(newContent) /\ oldContent # newContent) =>
    /\ result.HasChanges = TRUE
    /\ result.Lines = <<[Type |-> DiffLineRemoved, OldLineNum |-> 1, NewLineNum |-> 0,
                         Content |-> Chomp(oldContent)],
                        [Type |-> DiffLineAdded, OldLineNum |-> 0, NewLineNum |-> 1,
                         Content |-> Chomp(newContent)]>>
    /\ result.Stats = [LinesAdded |-> 1, LinesRemoved |-> 1, LinesChanged |-> 1]

\* a list of Versions in which each one has a greater id than the next
IdsDescend(list) == \A i \in 1..Len(list) : \A j \in 1..Len(list) : i < j => list[i].id > list[j].id

\* the versions lists of every file are newest first and GetLatestVersion
\* returns the head
NewestFirst ==
  \A f \in files :
    LET list == GetVersionsByFileID(f.id)
    IN /\ IdsDescend(list)
       /\ {list[i] : i \in 1..Len(list)} = VersionsOfFile(f.id)
       /\ Len(list) = Cardinality(VersionsOfFile(f.id))
       /\ list # <<>> => GetLatestVersion(f.id) = list[1]
       /\ list # <<>> => \A v \in VersionsOfFile(f.id) : v.id <= GetLatestVersion(f.id).id
       /\ GetVersionsByFilePath(f.blob_path) = list

Cancel ==
  /\ ~ctxDone
  /\ ctxDone' = TRUE
  /\ UNCHANGED <<remote, etagSeq, ledger, lastInsertRowid, clock, syncLocals, history, view, other,
                 resp, diffState, lateCycles, splitState>>

\* the containers whose pager.NextPage(ctx) fails when the context is cancelled while
\* ListBlobs walks the containers: all of them from some position on
CancelledScopes == {{ContainerOrder[i] : i \in k..Len(ContainerOrder)} : k \in 1..Len(ContainerOrder)}

\* select in Start takes ticker.C although ctx.Done() is ready, or the cancellation
\* falls into the listing of a cycle: with configured containers GetContainersToScan
\* needs no context, every NextPage(ctx) from the cancellation on fails, ListBlobs logs
\* the failure and goes on; with auto-discovery ListContainers(ctx) fails and sync returns
LateSync(listErr, failed) ==
  /\ ctxDone
  /\ lateCycles < MaxLateCycles
  /\ sync_list(listErr, failed)
  /\ lateCycles' = lateCycles + 1
  /\ UNCHANGED ctxDone

\* case <-ctx.Done(): return ctx.Err()
StartReturns ==
  /\ ctxDone
  /\ pc = "idle"
  /\ pc' = "stopped"
  /\ UNCHANGED <<remote, etagSeq, ledger, lastInsertRowid, clock, blobs, idx, seenPaths, cur, todo,
                 history, view, other, resp, diffState, shutdown, splitState>>

\* the steps of a cycle under a cancelled context: GetBlob(ctx, ...) fails, the store
\* calls take no context and go on
ScannerCancelled ==
  \/ \E rid \in LastInsertIds : ProcessBlob("GetBlob", rid)
  \/ NewFileCreateVersion("none")
  \/ ModifiedUpsertFile("none")
  \/ CheckDeletedStart("none")
  \/ CheckDeletedFile("none")
  \/ DeletedMarkFile("none")
  \/ SyncEnd

ScannerShutdown ==
  \/ ~ctxDone /\ ScannerNoFault
  \/ ctxDone /\ ScannerCancelled
  \/ \E failed \in CancelledScopes : LateSync(FALSE, failed)
  \/ LateSync(TRUE, {})
  \/ StartReturns

NextShutdown == Upstream \/ Cancel \/ ScannerShutdown

SpecShutdown == Init /\ [][NextShutdown]_vars

\* C24: when the context is cancelled, the listing calls that fail because of the
\* cancellation never make the cycle mark a tracked, not deleted file as deleted, nor
\* store a 'deleted' Version for it
C24_CancellationSafety ==
  [][ctxDone => \A p \in Paths : ContainerOf(p) \in failedScopes =>
        ~MarkedDeletedNow(p) /\ ~TombstoneAppendedNow(p)]_vars

\* the step of processBlob on the listed blob of path p that ends without an error
\* counted against the fault budget
ProcessBlobStep(p) ==
  /\ pc = "process"
  /\ idx <= Len(blobs)
  /\ blobs[idx].FullPath = p
  /\ seenPaths' = seenPaths \cup {p}
  /\ idx' = idx + 1 \/ pc' # "process"
  /\ faults' = faults

\* C25: a tracked, not deleted file listed with an ETag other than the stored one whose
\* fetched content hashes to the stored content_hash gets no Version; its etag and
\* last_modified become the fetched ones; content_hash, is_deleted and every other
\* row stay as they were
C25_MetadataOnlyTransition ==
  [][\A p \in Paths :
       (/\ ProcessBlobStep(p)
        /\ GetFile(p) # NoFile
        /\ ~GetFile(p).is_deleted
        /\ GetFile(p).etag # blobs[idx].ETag
        /\ remote[p].present
        /\ ComputeHash(remote[p].content) = GetFile(p).content_hash)
       => /\ versions' = versions
          /\ files' = (files \ {GetFile(p)}) \cup
                        {[GetFile(p) EXCEPT !.etag = remote[p].etag,
                                            !.last_modified = remote[p].last_modified]}]_vars

\* a file whose row carries the ETag of the blob while its latest Version, of the same
\* content hash, still carries the ETag before: the row was updated without a Version
C25_Witness ==
  \E f \in files :
    /\ ~f.is_deleted
    /\ faults = 0
    /\ GetLatestVersion(f.id) # NoVersion
    /\ GetLatestVersion(f.id).content_hash = f.content_hash
    /\ GetLatestVersion(f.id).blob_etag # f.etag
    /\ remote[f.blob_path].present
    /\ f.etag = remote[f.blob_path].etag

\* C26: a tracked, not deleted file listed with the stored ETag is passed over:
\* processBlob fetches nothing (whatever the blob has become upstream since the
\* listing, the step neither fails nor records it) and writes nothing to the ledger
C26_NoOpTransition ==
  [][\A p \in Paths :
       (/\ ProcessBlobStep(p)
        /\ GetFile(p) # NoFile
        /\ ~GetFile(p).is_deleted
        /\ GetFile(p).etag = blobs[idx].ETag)
       => /\ UNCHANGED <<ledger, lastInsertRowid, clock, vpath>>
          /\ UNCHANGED <<cycleClean, cycleQuiet, settled, quiet, rst>>
          /\ pc' = "process"]_vars

\* the file was passed over: an earlier cycle without a fault has completed, nothing
\* has changed upstream since it began, and this cycle has just processed a blob whose
\* row and Version that earlier cycle stored
C26_Witness ==
  /\ pc = "process"
  /\ idx > 1
  /\ faults = 0
  /\ quiet
  /\ cycleQuiet
  /\ LET p == blobs[idx - 1].FullPath
     IN /\ GetFile(p) # NoFile
        /\ ~GetFile(p).is_deleted
        /\ GetFile(p).etag = blobs[idx - 1].ETag
        /\ Cardinality(VersionsOfFile(GetFile(p).id)) = 1

\* C27: a listed path without a row gets, in a cycle without failure, one row
\* (is_deleted false) by UpsertFile and then one Version 'created' by CreateVersion
\* (handleNewFile is at CreateVersion and no Version was stored for the path before);
\* the Version belongs to the row, its content is what was fetched (the row's
\* content_hash is the hash of it) and its content_hash and ETag are the row's
C27_FirstSighting ==
  [][/\ \A p \in Paths :
          (ProcessBlobStep(p) /\ GetFile(p) = NoFile /\ remote[p].present)
          => /\ versions' = versions
             /\ files' = files \cup
                  {[id |-> nextFileId, blob_path |-> p, etag |-> remote[p].etag,
                    content_hash |-> ComputeHash(remote[p].content),
                    last_modified |-> remote[p].last_modified, is_deleted |-> FALSE]}
             /\ pc' = "new_version"
     /\ (/\ pc = "new_version"
         /\ pc' = "process"
         /\ faults' = faults
         /\ \A i \in 1..Len(vpath) : vpath[i] # cur.blob.FullPath)
        => \E f \in files, v \in versions' :
             /\ f.blob_path = cur.blob.FullPath
             /\ f.id = cur.fileID
             /\ ~f.is_deleted
             /\ files' = files
             /\ \A g \in files : g.blob_path = f.blob_path => g = f
             /\ versions' = versions \cup {v}
             /\ v \notin versions
             /\ v.file_id = f.id
             /\ v.change_type = "created"
             /\ ComputeHash(v.content) = f.content_hash
             /\ v.content_hash = f.content_hash
             /\ v.blob_etag = f.etag]_vars

\* the first sighting has just been recorded: the newest row and the newest Version
\* are those of the blob just processed
C27_Witness ==
  /\ pc = "process"
  /\ idx > 1
  /\ faults = 0
  /\ \E f \in files, v \in versions :
       /\ f.blob_path = blobs[idx - 1].FullPath
       /\ f.id = nextFileId - 1
       /\ v.id = nextVersionId - 1
       /\ VersionsOfFile(f.id) = {v}
       /\ v.change_type = "created"
       /\ v.content = remote[f.blob_path].content

\* the most recent of the Versions stored while classifying path p
LatestVersionOfPath(p) ==
  CHOOSE v \in VersionsOfPath(p) : \A w \in VersionsOfPath(p) : w.captured_at <= v.captured_at

\* C28: for a tracked, not deleted file missing from the listing checkDeleted appends
\* one Version 'deleted' with empty content, of that file, whose content_hash is the
\* content_hash of the Version stored last for the file, then sets is_deleted on the
\* file's row; no stored Version and nothing else in the rows changes
C28_DeletedTransition ==
  [][/\ (pc = "check" /\ versions' # versions)
        => LET file == GetFile(Head(todo))
           IN \E v \in versions' :
                /\ versions' = versions \cup {v}
                /\ v \notin versions
                /\ v.change_type = "deleted"
                /\ v.content = ""
                /\ v.file_id = file.id
                /\ VersionsOfPath(file.blob_path) # {}
                     => v.content_hash = LatestVersionOfPath(file.blob_path).content_hash
                /\ files' = files
     /\ (pc = "del_mark" /\ files' # files)
        => /\ versions' = versions
           /\ files' = (files \ {GetFile(cur.blob_path)})
                         \cup {[GetFile(cur.blob_path) EXCEPT !.is_deleted = TRUE]}]_vars

\* the lines of a line list that are present on the old side, and on the new side
OldSide(lines) == SelectSeq(lines, LAMBDA l : l.Type \in {DiffLineContext, DiffLineRemoved})
NewSide(lines) == SelectSeq(lines, LAMBDA l : l.Type \in {DiffLineContext, DiffLineAdded})

\* C29: in the line list of every result of Compare the old line numbers of the
\* 'context' and 'removed' lines are 1, 2, 3, ... in order, the new line numbers of the
\* 'context' and 'added' lines likewise, an 'added' line has no old number and a
\* 'removed' line no new number, and there are as many old-side lines as the old text
\* has lines and as many new-side lines as the new text has
C29_DiffLineNumbering ==
  result # NoResult =>
    /\ \A k \in 1..Len(OldSide(result.Lines)) : OldSide(result.Lines)[k].OldLineNum = k
    /\ \A k \in 1..Len(NewSide(result.Lines)) : NewSide(result.Lines)[k].NewLineNum = k
    /\ \A i \in 1..Len(result.Lines) :
         /\ result.Lines[i].Type = DiffLineAdded => result.Lines[i].OldLineNum = 0
         /\ result.Lines[i].Type = DiffLineRemoved => result.Lines[i].NewLineNum = 0
    /\ Len(OldSide(result.Lines)) = Len(LinesOf(oldContent, <<>>))
    /\ Len(NewSide(result.Lines)) = Len(LinesOf(newContent, <<>>))

\* ---------------------------------------------------------------------------
\* Web page: renderSplitDiff
\* ---------------------------------------------------------------------------
MaxSplitLines == 4
SplitContents == {<<>>, <<"x">>}
LineTypes == {DiffLineContext, DiffLineRemoved, DiffLineAdded}

\* the line lists generateLineDiff can hand to the page: any order of the three types,
\* numbered by the two counters of generateLineDiff (0: the number is omitted)
NumberedLines(types, contents) ==
  [i \in 1..Len(types) |->
     [Type |-> types[i],
      OldLineNum |-> IF types[i] = DiffLineAdded THEN 0
                     ELSE Cardinality({j \in 1..i : types[j] # DiffLineAdded}),
      NewLineNum |-> IF types[i] = DiffLineRemoved THEN 0
                     ELSE Cardinality({j \in 1..i : types[j] # DiffLineRemoved}),
      Content |-> contents[i]]]

SplitInputs ==
  UNION {{NumberedLines(t, c) : t \in [1..n -> LineTypes], c \in [1..n -> SplitContents]}
           : n \in 0..MaxSplitLines}

\* the cells renderSplitDiff pushes ('' as line number is 0 here)
LeftCell(line) == [num |-> line.OldLineNum, content |-> line.Content, type |-> line.Type]
RightCell(line) == [num |-> line.NewLineNum, content |-> line.Content, type |-> line.Type]
EmptyCell == [num |-> 0, content |-> <<>>, type |-> "empty"]

\* a plausible slip: the line after a removed line is taken for its pair whatever it is
pairedChange_anyNext(lines, i) == i + 1 <= Len(lines)

\* renderSplitDiff: nextLine && nextLine.type === 'added'
pairedChange(lines, i) == i + 1 <= Len(lines) /\ lines[i + 1].Type = DiffLineAdded

\* renderSplitDiff, the loop from index i on (Len is the loop's bound, sequences start at 1)
RECURSIVE renderSplitDiff_from(_, _, _, _)
renderSplitDiff_from(lines, i, leftLines, rightLines) ==
  IF i > Len(lines) THEN [leftLines |-> leftLines, rightLines |-> rightLines, rendered |-> TRUE]
  ELSE LET line == lines[i]
       IN IF line.Type = DiffLineContext
            THEN renderSplitDiff_from(lines, i + 1, Append(leftLines, LeftCell(line)),
                                      Append(rightLines, RightCell(line)))
          ELSE IF line.Type = DiffLineRemoved
            THEN IF pairedChange(lines, i)
                   THEN renderSplitDiff_from(lines, i + 2, Append(leftLines, LeftCell(line)),
                                             Append(rightLines, [RightCell(lines[i + 1]) EXCEPT !.type = DiffLineAdded]))
                   ELSE renderSplitDiff_from(lines, i + 1, Append(leftLines, LeftCell(line)),
                                             Append(rightLines, EmptyCell))
          ELSE IF line.Type = DiffLineAdded
            THEN renderSplitDiff_from(lines, i + 1, Append(leftLines, EmptyCell),
                                      Append(rightLines, RightCell(line)))
          ELSE renderSplitDiff_from(lines, i + 1, leftLines, rightLines)

renderSplitDiff(lines) == renderSplitDiff_from(lines, 1, <<>>, <<>>)

InitSplit ==
  /\ InitVault
  /\ oldContent = <<>>
  /\ newContent = <<>>
  /\ result = NoResult
  /\ ctxDone = FALSE
  /\ lateCycles = 0
  /\ apiDiff \in SplitInputs
  /\ panes = NoPanes

\* the page shows the diff in split view
RenderSplit ==
  /\ panes' = renderSplitDiff(apiDiff)
  /\ UNCHANGED <<remote, etagSeq, ledger, lastInsertRowid, clock, syncLocals, history, view, other,
                 resp, diffState, shutdown, apiDiff>>

NextSplit == RenderSplit

SpecSplit == InitSplit /\ [][NextSplit]_vars

\* the cells of a pane that are not empty
FilledCells(pane) == SelectSeq(pane, LAMBDA c : c.type # "empty")

\* C30: the two panes have the same length; a row is a 'context' line on both sides, or
\* a 'removed' line with the 'added' line that follows it immediately, or a 'removed'
\* line not followed by an 'added' one with an empty cell on the right, or an 'added'
\* line not preceded by a 'removed' one with an empty cell on the left; each pane
\* holds the lines of its side once each and in their order
C30_SplitProjection ==
  panes.rendered =>
    LET lines == apiDiff
        L == panes.leftLines
        R == panes.rightLines
    IN /\ Len(L) = Len(R)
       /\ \A r \in 1..Len(L) :
            \E i \in 1..Len(lines) :
              \/ /\ lines[i].Type = DiffLineContext
                 /\ L[r] = LeftCell(lines[i])
                 /\ R[r] = RightCell(lines[i])
              \/ /\ lines[i].Type = DiffLineRemoved
                 /\ i < Len(lines)
                 /\ lines[i + 1].Type = DiffLineAdded
                 /\ L[r] = LeftCell(lines[i])
                 /\ R[r] = RightCell(lines[i + 1])
              \/ /\ lines[i].Type = DiffLineRemoved
                 /\ ~(i < Len(lines) /\ lines[i + 1].Type = DiffLineAdded)
                 /\ L[r] = LeftCell(lines[i])
                 /\ R[r] = EmptyCell
              \/ /\ lines[i].Type = DiffLineAdded
                 /\ ~(i > 1 /\ lines[i - 1].Type = DiffLineRemoved)
                 /\ L[r] = EmptyCell
                 /\ R[r] = RightCell(lines[i])
       /\ FilledCells(L) = [k \in 1..Len(OldSide(lines)) |-> LeftCell(OldSide(lines)[k])]
       /\ FilledCells(R) = [k \in 1..Len(NewSide(lines)) |-> RightCell(NewSide(lines)[k])]

\* a rendering with a context row, a removed line alone and a removed line paired
\* with the added line after it
C30_Witness ==
  /\ panes.rendered
  /\ \E r \in 1..Len(panes.leftLines) :
       panes.leftLines[r].type = DiffLineContext
  /\ \E r \in 1..Len(panes.leftLines) :
       panes.leftLines[r].type = DiffLineRemoved /\ panes.rightLines[r].type = "empty"
  /\ \E r \in 1..Len(panes.leftLines) :
       panes.leftLines[r].type = DiffLineRemoved /\ panes.rightLines[r].type = DiffLineAdded

\* C31: handleRestore uploads the content of a Version to the object at path only when
\* the Version is one of the file tracked at that path
C31_RestoreTargetsOwnFile ==
  [][remote' # remote =>
       \A r \in RestoreRequests :
         handleRestore(r[1], r[2], r[3]) =>
           /\ GetFile(r[1]) # NoFile
           /\ GetVersion(r[2]).file_id = GetFile(r[1]).id]_vars

\* the Version of the same file stored directly before v (by id), NoVersion for the first
PreviousVersion(v) ==
  LET earlier == {w \in VersionsOfFile(v.file_id) : w.id < v.id}
  IN IF earlier = {} THEN NoVersion
     ELSE CHOOSE w \in earlier : \A u \in earlier : u.id <= w.id

\* C32: read in id order, the Versions of a file start with a 'created' one, a
\* 'deleted' one is followed only by a 'created' one, and a 'modified' or 'deleted'
\* one directly follows a 'created' or 'modified' one
C32_WellFormedHistory ==
  \A v \in versions :
    /\ PreviousVersion(v) = NoVersion => v.change_type = "created"
    /\ (PreviousVersion(v) # NoVersion /\ PreviousVersion(v).change_type = "deleted")
         => v.change_type = "created"
    /\ v.change_type \in {"modified", "deleted"}
         => /\ PreviousVersion(v) # NoVersion
            /\ PreviousVersion(v).change_type \in {"created", "modified"}

\* C33: a 'modified' Version never has the content_hash of the Version of the same
\* file stored directly before it
C33_NoRedundantModified ==
  \A v \in versions :
    (v.change_type = "modified" /\ PreviousVersion(v) # NoVersion)
      => v.content_hash # PreviousVersion(v).content_hash

\* C34: every path of the listing of a cycle is passed over by deletion inference,
\* whatever became of its processBlob, and deletion inference marks and tombstones
\* only the rows it did not pass over
C34_ListedNeverInferredDeleted ==
  [][/\ (pc = "process" /\ pc' = "check")
          => \A p \in ListedInCycle : \A i \in 1..Len(todo') : todo'[i] # p
     /\ \A p \in Paths :
          (MarkedDeletedNow(p) \/ TombstoneAppendedNow(p))
            => /\ pc \in {"check", "del_mark"}
               /\ todo # <<>>
               /\ Head(todo) = p]_vars

\* deletion inference of a cycle without a fault is over and has passed over a file
\* whose object is gone: the object was listed and removed afterwards
C34_Witness ==
  /\ pc = "check"
  /\ todo = <<>>
  /\ faults = 0
  /\ \E f \in files :
       /\ ~f.is_deleted
       /\ ~remote[f.blob_path].present
       /\ VersionsOfFile(f.id) # {}
       /\ \A v \in versions : v.change_type # "deleted"

\* C35: when ListBlobs returns an error (no container was listed) the cycle is over at
\* once: no blob is processed, deletion inference does not run, and no file row and
\* no Version changes
C35_FailedListingWritesNothing ==
  [][(pc = "idle" /\ faults' = faults + 1 /\ failedScopes' = {})
       => /\ pc' = "idle"
          /\ UNCHANGED <<ledger, lastInsertRowid, clock, vpath>>
          /\ UNCHANGED <<blobs, idx, seenPaths, cur, todo>>]_vars

\* the first listing of all has failed: both objects are upstream, nothing has changed
\* there, no cycle has completed, and the ledger is empty
C35_Witness ==
  /\ pc = "idle"
  /\ faults = 1
  /\ ~quiet
  /\ etagSeq = 0
  /\ \A p \in Paths : remote[p].present
  /\ files = {}
  /\ versions = {}

\* the 'deleted' Versions of a file
Tombstones(fileID) == {v \in VersionsOfFile(fileID) : v.change_type = "deleted"}

\* C36: as long as no object has been written upstream since the start, an object
\* that is gone stays gone, so every file has disappeared at most once: it has at
\* most one 'deleted' Version, however many cycles have run and whichever call failed
C36_OneTombstonePerDisappearance ==
  etagSeq = 0 => \A f \in files : Cardinality(Tombstones(f.id)) <= 1

====
